---- MODULE Spec2Model ----
(***************************************************************************)
(* Model of order_bot.py: an aiogram order-intake bot.  One conversation   *)
(* (chat) walks through address -> item selection -> phone number; the     *)
(* finished order is sent to the administrator chat.                       *)
(*                                                                         *)
(* Texts that the code inspects (message.text, callback data, catalog      *)
(* keys) are sequences of one-character strings, so that len(), split()    *)
(* and the phone regular expression are computed as the code computes      *)
(* them.  Prices are kept in cents (80.50 is 8050).                        *)
(***************************************************************************)
EXTENDS Integers, Sequences, FiniteSets, TLC

VARIABLES fsmState, fsmData, task, last, sink, nEvents, run, hist

vars == <<fsmState, fsmData, task, last, sink, nEvents, run, hist>>

----------------------------------------------------------------------------
(* Bounds of the model.                                                    *)

\* number of updates the dispatcher receives in one behaviour of Spec
MaxEvents == 5
\* number of updates the dispatcher receives in one behaviour of SpecTasks
MaxTaskEvents == 6
\* number of handler tasks that can exist at once
MaxTasks == 2
\* number of updates the dispatcher receives in one behaviour of SpecConvs
MaxConvEvents == 6

Convs == {"c1", "c2"}
\* the conversations that send updates
ActiveConvs == {"c1"}
TaskIds == 1..MaxTasks

----------------------------------------------------------------------------
(* Text literals.                                                          *)

T_empty == <<>>
T_abc == <<"a","b","c">>
T_spaces == <<" "," "," "," "," ">>
T_padded == <<" "," ","a","b"," ">>
T_MainSt == <<"M","a","i","n"," ","S","t">>
T_Evergreen == <<"7","4","2"," ","E","v","e","r","g","r","e","e","n"," ","T","e","r","r","a","c","e">>
P_dashes == <<"1","2","3","-","4","5","6","-","7","8","9","0">>
P_parens == <<"(","1","2","3",")"," ","4","5","6","-","7","8","9","0">>
P_plus == <<"+","1","1","2","3","4","5","6","7","8","9","0">>
P_plain == <<"1","2","3","4","5","6","7","8","9","0">>
P_scenario == <<"4","1","6","-","5","5","5","-","0","1","9","9">>
P_short == <<"1","2","3","-","4","5","-","6","7","8","9">>
P_letters == <<"a","b","c","d","e","f","g","h","i","j">>
P_unbalanced == <<"(","1","2","3"," ","4","5","6","-","7","8","9","0">>
P_newline == <<"1","2","3","4","5","6","7","8","9","0","\n">>
K_vodka == <<"v","o","d","k","a"," ","-"," ","a","b","s","o","l","u","t","e">>
K_jager == <<"j","a","g","e","r","m","a","i","s","t","e","r">>
K_vvvisky == <<"v","v","v","i","s","k","y">>
K_soda == <<"s","o","d","a">>
I_beer == <<"b","e","e","r">>
I_soda_x == <<"s","o","d","a","_","x">>
I_so_da == <<"s","o","_","d","a">>
I_empty == <<>>
I__soda == <<"_","s","o","d","a">>
CallbackPrefix == <<"s","e","l","e","c","t","_","i","t","e","m","_">>

\* the message texts a user sends (T_empty also stands for a message
\* without text, for which message.text is None)
Texts ==
  { T_empty, T_abc, T_spaces, T_padded, T_MainSt, T_Evergreen,
    P_dashes, P_parens, P_plus, P_plain, P_scenario,
    P_short, P_letters, P_unbalanced, P_newline }

\* the item identifiers a button click can carry after "select_item_"
ItemIds ==
  { K_vodka, K_jager, K_vvvisky, K_soda,
    I_beer, I_soda_x, I_so_da, I_empty, I__soda }

\* the texts and item identifiers sent under SpecTasks
TaskTexts == { T_abc, T_Evergreen, P_dashes }
TaskItemIds == { K_soda, I_beer }

\* the texts and item identifiers conversation c sends under SpecConvs
ConvTexts(c) ==
  IF c = "c1" THEN { T_Evergreen, P_dashes } ELSE { T_MainSt, P_plain }
ConvItemIds(c) == IF c = "c1" THEN { K_soda } ELSE { K_vodka }

----------------------------------------------------------------------------
(* Configuration and pure helpers.                                         *)

MENU_ITEMS ==
  (K_vodka   :> [name |-> "Vodka",        price |-> 8000]) @@
  (K_jager   :> [name |-> "Jagermaister", price |-> 8050]) @@
  (K_vvvisky :> [name |-> "VVVisky",      price |-> 8000]) @@
  (K_soda    :> [name |-> "Soda Pop",     price |-> 300000])
\* (the emoji that ends the name of "soda" is left out: names are never parsed)

\* the FSM states of OrderForm; None is "no state" (no session)
None == "None"
waiting_for_address == "waiting_for_address"
waiting_for_item_selection == "waiting_for_item_selection"
waiting_for_phone_number == "waiting_for_phone_number"
OrderForm ==
  {waiting_for_address, waiting_for_item_selection, waiting_for_phone_number}

Digits == {"0","1","2","3","4","5","6","7","8","9"}
\* the characters of [\s.-]
Separators == {" ", "\n", "\t", ".", "-"}

\* str.split(sep): the pieces of s between occurrences of sep
RECURSIVE Split(_, _)
Split(s, sep) ==
  IF \A i \in 1..Len(s) : s[i] # sep
  THEN <<s>>
  ELSE LET i == CHOOSE j \in 1..Len(s) :
                  s[j] = sep /\ \A k \in 1..(j-1) : s[k] # sep
       IN  <<SubSeq(s, 1, i - 1)>> \o Split(SubSeq(s, i + 1, Len(s)), sep)

\* str.startswith(prefix)
StartsWith(s, prefix) ==
  Len(s) >= Len(prefix) /\ SubSeq(s, 1, Len(prefix)) = prefix

\* the decimal digits of a natural number
RECURSIVE DigitsOf(_)
DigitsOf(n) ==
  LET d == <<"0","1","2","3","4","5","6","7","8","9">>[(n % 10) + 1]
  IN  IF n < 10 THEN <<d>> ELSE DigitsOf(n \div 10) \o <<d>>

\* f"{price:.2f}" of a price kept in cents
Format2f(cents) ==
  DigitsOf(cents \div 100) \o <<".">> \o
  DigitsOf((cents % 100) \div 10) \o DigitsOf(cents % 10)

\* re.match(phone_number_pattern, text): after the optional "+1" or "1",
\* one character class per position, optional where the pattern has "?"
PhoneAtoms ==
  << [cls |-> Separators, opt |-> TRUE],
     [cls |-> {"("},      opt |-> TRUE],
     [cls |-> Digits,     opt |-> FALSE],
     [cls |-> Digits,     opt |-> FALSE],
     [cls |-> Digits,     opt |-> FALSE],
     [cls |-> {")"},      opt |-> TRUE],
     [cls |-> Separators, opt |-> TRUE],
     [cls |-> Digits,     opt |-> FALSE],
     [cls |-> Digits,     opt |-> FALSE],
     [cls |-> Digits,     opt |-> FALSE],
     [cls |-> Separators, opt |-> TRUE],
     [cls |-> Digits,     opt |-> FALSE],
     [cls |-> Digits,     opt |-> FALSE],
     [cls |-> Digits,     opt |-> FALSE],
     [cls |-> Digits,     opt |-> FALSE] >>

\* "$": the end of the text, or just before a newline that ends the text
AtEnd(s, i) ==
  \/ i = Len(s) + 1
  \/ i = Len(s) /\ s[i] = "\n"

RECURSIVE MatchAtoms(_, _, _)
MatchAtoms(s, i, k) ==
  IF k > Len(PhoneAtoms)
  THEN AtEnd(s, i)
  ELSE \/ PhoneAtoms[k].opt /\ MatchAtoms(s, i, k + 1)
       \/ /\ i <= Len(s)
          /\ s[i] \in PhoneAtoms[k].cls
          /\ MatchAtoms(s, i + 1, k + 1)

\* the lengths the group (?:\+1|1)? can consume at the start of s
CountryCodeLens(s) ==
  {0} \cup (IF StartsWith(s, <<"1">>) THEN {1} ELSE {})
      \cup (IF StartsWith(s, <<"+","1">>) THEN {2} ELSE {})

PhoneMatch(s) == \E n \in CountryCodeLens(s) : MatchAtoms(s, n + 1, 1)

----------------------------------------------------------------------------
(* State.                                                                  *)
(*   fsmState[c], fsmData[c]  MemoryStorage: the FSM state and the data    *)
(*                            dict of conversation c                       *)
(*   task[t]                  a running handler coroutine: its update, the *)
(*                            handler chosen by the filters, the await it  *)
(*                            is suspended at, the replies it has sent,    *)
(*                            the session as it was at dispatch            *)
(*   last[c]                  the handler of c that ended most recently    *)
(*                            (history, not program state)                 *)
(*   sink                     the messages sent to ADMIN_CHAT_ID           *)
(*   nEvents                  updates received so far                      *)
(*   run[c]                   the updates of c since its last /start while *)
(*                            they are a valid address, a catalog item and *)
(*                            a valid phone, in this order                 *)
(*   hist[c]                  counts and values of the past of c (history, *)
(*                            not program state)                           *)
(***************************************************************************)

EmptyDict == [k \in {} |-> k]

\* dict.update(): the keys of new replace or extend those of old
UpdateData(old, new) == new @@ old

\* how a handler ends: it returns, or it raises
Finished == {"done", "fault"}

IdleTask ==
  [conv |-> "-", kind |-> "-", arg |-> <<>>, handler |-> "-",
   pc |-> "idle", out |-> <<>>, msg |-> 0, seq |-> 0,
   state0 |-> None, data0 |-> EmptyDict]

\* the coroutine created for an update of conversation c; seq numbers the
\* updates, state0 and data0 are the FSM state and data of c when the update
\* is dispatched
NewTask(c, kind, arg, handler, pc, out, msg) ==
  [conv |-> c, kind |-> kind, arg |-> arg, handler |-> handler,
   pc |-> pc, out |-> out, msg |-> msg, seq |-> nEvents + 1,
   state0 |-> fsmState[c], data0 |-> fsmData[c]]

NoRun == [evs |-> <<>>, mark |-> 0]

\* entries: the times the state became waiting_for_phone_number; address,
\* item: the address and the item identifier accepted last since the last
\* /start and the last finalization (a set with one element, empty when
\* there is none)
NoHist == [entries |-> 0, address |-> {}, item |-> {}]

Init ==
  /\ fsmState = [c \in Convs |-> None]
  /\ fsmData = [c \in Convs |-> EmptyDict]
  /\ task = [t \in TaskIds |-> IdleTask]
  /\ last = [c \in Convs |-> IdleTask]
  /\ sink = <<>>
  /\ nEvents = 0
  /\ run = [c \in Convs |-> NoRun]
  /\ hist = [c \in Convs |-> NoHist]

\* the lowest task slot that holds no running handler (the slot after the
\* running handlers)
HasFreeSlot == \E t \in TaskIds : task[t].pc = "idle"
FreeSlot == CHOOSE t \in TaskIds :
              /\ task[t].pc = "idle"
              /\ \A u \in TaskIds : task[u].pc = "idle" => t <= u

\* no handler of conversation c is running
Quiet(c) == \A t \in TaskIds : task[t].conv # c

Ev(kind, arg) == [kind |-> kind, arg |-> arg]

----------------------------------------------------------------------------
(* The validations of the handlers.                                        *)

\* AddressOk measuring the first word of the text only
AddressOk_first_word(text) ==
  text # <<>> /\ Len(Split(text, " ")[1]) >= 5

\* process_address: "if not message.text or len(message.text) < 5" fails
AddressOk(text) == text # <<>> /\ Len(text) >= 5

\* process_item_selection: callback_query.data.split('_')[2]
ItemIdOf(data) == Split(data, "_")[3]

\* process_phone_number: "not message.text or not re.match(...)" fails
PhoneOk(text) == text # <<>> /\ PhoneMatch(text)

\* the keys the order summary reads from user_data
SummaryKeys == {"address", "item_name", "item_price", "phone_number"}

\* OrderSummary with the address and the phone number interchanged
OrderSummary_swapped(c, user_data) ==
  [user |-> c,
   address |-> user_data["phone_number"],
   item_name |-> user_data["item_name"],
   item_price |-> Format2f(user_data["item_price"]),
   phone |-> user_data["address"]]

\* the order summary sent to the administrator
OrderSummary(c, user_data) ==
  [user |-> c,
   address |-> user_data["address"],
   item_name |-> user_data["item_name"],
   item_price |-> Format2f(user_data["item_price"]),
   phone |-> user_data["phone_number"]]

----------------------------------------------------------------------------
(* Bookkeeping of the order flow in progress (history, not program state). *)

SentBy(c) == Cardinality({i \in 1..Len(sink) : sink[i].order.user = c})

\* the item identifier of an ItemSelected event with callback data `data`
SelectedId(data) == SubSeq(data, Len(CallbackPrefix) + 1, Len(data))

RunAfter(c, e) ==
  LET r == run[c] IN
  IF e.kind = "start" THEN [evs |-> <<e>>, mark |-> SentBy(c)]
  ELSE IF Len(r.evs) = 1 /\ e.kind = "text" /\ AddressOk(e.arg)
       THEN [r EXCEPT !.evs = Append(r.evs, e)]
  ELSE IF Len(r.evs) = 2 /\ e.kind = "item"
          /\ SelectedId(e.arg) \in DOMAIN MENU_ITEMS
       THEN [r EXCEPT !.evs = Append(r.evs, e)]
  ELSE IF Len(r.evs) = 3 /\ e.kind = "text" /\ PhoneOk(e.arg)
       THEN [r EXCEPT !.evs = Append(r.evs, e)]
  ELSE NoRun

Received(c, e) ==
  /\ nEvents' = nEvents + 1
  /\ run' = [run EXCEPT ![c] = RunAfter(c, e)]

----------------------------------------------------------------------------
(* Handlers.  A handler runs from the dispatch of its update to its first  *)
(* network await in one step, and from one network await to the next in    *)
(* one step; the awaits on MemoryStorage never suspend.                    *)

Suspended(t, handler, pc) == task[t].handler = handler /\ task[t].pc = pc

\* the update is dispatched to a handler, which runs to its first await
\* (the coroutine rec is suspended in slot t) or to its end
Begin(t, rec) ==
  IF rec.pc \in Finished
  THEN /\ last' = [last EXCEPT ![rec.conv] = rec]
       /\ UNCHANGED task
  ELSE /\ task' = [task EXCEPT ![t] = rec]
       /\ UNCHANGED last

\* the handler sends a reply and is suspended at this await
Say(t, reply, pc) ==
  /\ task' = [task EXCEPT ![t].out = Append(@, reply), ![t].pc = pc]
  /\ UNCHANGED last

\* the handler returns: its coroutine is gone, the coroutines dispatched
\* after it move down one slot (the slots list the running handlers in
\* the order of their dispatch)
Return(t) ==
  /\ task' = [u \in TaskIds |->
                IF u < t THEN task[u]
                ELSE IF u < MaxTasks THEN task[u + 1] ELSE IdleTask]
  /\ last' = [last EXCEPT ![task[t].conv] = [task[t] EXCEPT !.pc = "done"]]

\* send_welcome, to the await of message.reply
send_welcome(c, t) ==
  /\ Received(c, Ev("start", <<>>))
  /\ Begin(t,
       NewTask(c, "start", <<>>, "send_welcome", "reply", <<"welcome">>, 0))
  /\ hist' = [hist EXCEPT ![c].address = {}, ![c].item = {}]
  /\ UNCHANGED <<fsmState, fsmData, sink>>

\* send_welcome after the reply: state.set_state(waiting_for_address)
send_welcome_set_state(t) ==
  /\ Suspended(t, "send_welcome", "reply")
  /\ fsmState' = [fsmState EXCEPT ![task[t].conv] = waiting_for_address]
  /\ Return(t)
  /\ UNCHANGED <<fsmData, sink, nEvents, run, hist>>

\* process_address storing the address without the key of the conversation
process_address_shared(c, t, text) ==
  /\ fsmState[c] = waiting_for_address
  /\ Received(c, Ev("text", text))
  /\ IF ~AddressOk(text)
     THEN /\ Begin(t,
               NewTask(c, "text", text, "process_address", "reply_invalid",
                       <<"address_reprompt">>, 0))
          /\ UNCHANGED <<fsmData, hist>>
     ELSE /\ fsmData' = [b \in Convs |->
               UpdateData(fsmData[b], [address |-> text])]
          /\ hist' = [hist EXCEPT ![c].address = {text}]
          /\ Begin(t,
               NewTask(c, "text", text, "process_address", "reply_menu",
                       <<"menu">>, 0))
  /\ UNCHANGED <<fsmState, sink>>

\* process_address, to the await of message.reply
process_address(c, t, text) ==
  /\ fsmState[c] = waiting_for_address
  /\ Received(c, Ev("text", text))
  /\ IF ~AddressOk(text)
     THEN /\ Begin(t,
               NewTask(c, "text", text, "process_address", "reply_invalid",
                       <<"address_reprompt">>, 0))
          /\ UNCHANGED <<fsmData, hist>>
     ELSE /\ fsmData' = [fsmData EXCEPT ![c] =
               UpdateData(@, [address |-> text])]
          /\ hist' = [hist EXCEPT ![c].address = {text}]
          /\ Begin(t,
               NewTask(c, "text", text, "process_address", "reply_menu",
                       <<"menu">>, 0))
  /\ UNCHANGED <<fsmState, sink>>

\* process_address after the menu reply:
\* state.set_state(waiting_for_item_selection)
process_address_set_state(t) ==
  /\ Suspended(t, "process_address", "reply_menu")
  /\ fsmState' = [fsmState EXCEPT ![task[t].conv] = waiting_for_item_selection]
  /\ Return(t)
  /\ UNCHANGED <<fsmData, sink, nEvents, run, hist>>

\* process_item_selection registered without the state filter
process_item_selection_any_state(c, t, data) ==
  /\ StartsWith(data, CallbackPrefix)
  /\ Received(c, Ev("item", data))
  /\ LET item_id == ItemIdOf(data) IN
     IF item_id \notin DOMAIN MENU_ITEMS
     THEN /\ Begin(t,
               NewTask(c, "item", data, "process_item_selection",
                       "answer_unavailable", <<"unavailable">>, 0))
          /\ UNCHANGED <<fsmData, hist>>
     ELSE /\ fsmData' = [fsmData EXCEPT ![c] =
               UpdateData(@, [item_name |-> MENU_ITEMS[item_id].name,
                              item_price |-> MENU_ITEMS[item_id].price])]
          /\ hist' = [hist EXCEPT ![c].item = {item_id}]
          /\ Begin(t,
               NewTask(c, "item", data, "process_item_selection",
                       "edit_text", <<"selected">>, 0))
  /\ UNCHANGED <<fsmState, sink>>

\* process_item_selection, to the await of message.answer (item unknown)
\* or of message.edit_text (item known)
process_item_selection(c, t, data) ==
  /\ fsmState[c] = waiting_for_item_selection
  /\ StartsWith(data, CallbackPrefix)
  /\ Received(c, Ev("item", data))
  /\ LET item_id == ItemIdOf(data) IN
     IF item_id \notin DOMAIN MENU_ITEMS
     THEN /\ Begin(t,
               NewTask(c, "item", data, "process_item_selection",
                       "answer_unavailable", <<"unavailable">>, 0))
          /\ UNCHANGED <<fsmData, hist>>
     ELSE /\ fsmData' = [fsmData EXCEPT ![c] =
               UpdateData(@, [item_name |-> MENU_ITEMS[item_id].name,
                              item_price |-> MENU_ITEMS[item_id].price])]
          /\ hist' = [hist EXCEPT ![c].item = {item_id}]
          /\ Begin(t,
               NewTask(c, "item", data, "process_item_selection",
                       "edit_text", <<"selected">>, 0))
  /\ UNCHANGED <<fsmState, sink>>

\* process_item_selection after edit_text: message.answer (phone prompt)
process_item_selection_prompt(t) ==
  /\ Suspended(t, "process_item_selection", "edit_text")
  /\ Say(t, "phone_prompt", "answer_prompt")
  /\ UNCHANGED <<fsmState, fsmData, sink, nEvents, run, hist>>

\* process_item_selection after the phone prompt:
\* state.set_state(waiting_for_phone_number), then callback_query.answer()
process_item_selection_set_state(t) ==
  /\ Suspended(t, "process_item_selection", "answer_prompt")
  /\ fsmState' = [fsmState EXCEPT ![task[t].conv] = waiting_for_phone_number]
  /\ Say(t, "callback_answer", "callback_answer")
  /\ hist' = [hist EXCEPT ![task[t].conv].entries =
       IF fsmState[task[t].conv] = waiting_for_phone_number THEN @ ELSE @ + 1]
  /\ UNCHANGED <<fsmData, sink, nEvents, run>>

\* process_phone_number, to the await of message.reply (phone invalid) or of
\* bot.send_message (phone valid); a key missing from user_data raises
\* KeyError while the summary is built and ends the handler
process_phone_number(c, t, text) ==
  /\ fsmState[c] = waiting_for_phone_number
  /\ Received(c, Ev("text", text))
  /\ IF ~PhoneOk(text)
     THEN /\ Begin(t,
               NewTask(c, "text", text, "process_phone_number",
                       "reply_invalid", <<"phone_reprompt">>, 0))
          /\ UNCHANGED <<fsmData, sink, hist>>
     ELSE LET user_data == UpdateData(fsmData[c], [phone_number |-> text]) IN
          /\ fsmData' = [fsmData EXCEPT ![c] = user_data]
          /\ IF SummaryKeys \subseteq DOMAIN user_data
             THEN /\ sink' = Append(sink,
                       [order |-> OrderSummary(c, user_data),
                        status |-> "sending"])
                  /\ Begin(t,
                       NewTask(c, "text", text, "process_phone_number",
                               "send_message", <<>>, Len(sink) + 1))
                  /\ UNCHANGED hist
             ELSE /\ Begin(t,
                       NewTask(c, "text", text, "process_phone_number",
                               "fault", <<>>, 0))
                  /\ UNCHANGED <<sink, hist>>
  /\ UNCHANGED fsmState

\* process_phone_number_sent with state.clear() moved before the final reply
process_phone_number_sent_clearing(t, ok) ==
  /\ Suspended(t, "process_phone_number", "send_message")
  /\ sink' = [sink EXCEPT ![task[t].msg].status =
                IF ok THEN "delivered" ELSE "failed"]
  /\ fsmState' = [fsmState EXCEPT ![task[t].conv] = None]
  /\ fsmData' = [fsmData EXCEPT ![task[t].conv] = EmptyDict]
  /\ Say(t, IF ok THEN "thanks" ELSE "sorry", "reply_final")
  /\ UNCHANGED <<nEvents, run, hist>>

\* process_phone_number after bot.send_message returned (ok) or raised:
\* message.reply with the confirmation or with the apology
process_phone_number_sent(t, ok) ==
  /\ Suspended(t, "process_phone_number", "send_message")
  /\ sink' = [sink EXCEPT ![task[t].msg].status =
                IF ok THEN "delivered" ELSE "failed"]
  /\ Say(t, IF ok THEN "thanks" ELSE "sorry", "reply_final")
  /\ UNCHANGED <<fsmState, fsmData, nEvents, run, hist>>

\* process_phone_number_clear with state.set_state(None) in place of
\* state.clear(): the data stays
process_phone_number_clear_state_only(t) ==
  /\ Suspended(t, "process_phone_number", "reply_final")
  /\ fsmState' = [fsmState EXCEPT ![task[t].conv] = None]
  /\ Return(t)
  /\ hist' = [hist EXCEPT ![task[t].conv].address = {},
                           ![task[t].conv].item = {}]
  /\ UNCHANGED <<fsmData, sink, nEvents, run>>

\* process_phone_number after the final reply: state.clear()
process_phone_number_clear(t) ==
  /\ Suspended(t, "process_phone_number", "reply_final")
  /\ fsmState' = [fsmState EXCEPT ![task[t].conv] = None]
  /\ fsmData' = [fsmData EXCEPT ![task[t].conv] = EmptyDict]
  /\ Return(t)
  /\ hist' = [hist EXCEPT ![task[t].conv].address = {},
                           ![task[t].conv].item = {}]
  /\ UNCHANGED <<sink, nEvents, run>>

\* a handler returns after its last await (a re-prompt, the "not available"
\* answer, callback_query.answer())
handler_return(t) ==
  /\ task[t].pc \in {"reply_invalid", "answer_unavailable", "callback_answer"}
  /\ Return(t)
  /\ UNCHANGED <<fsmState, fsmData, sink, nEvents, run, hist>>

\* the router finds no handler whose filters accept the update:
\* the update is dropped
NoHandler(c, e) ==
  \/ e.kind = "text" /\ fsmState[c] \notin {waiting_for_address,
                                            waiting_for_phone_number}
  \/ e.kind = "item" /\ ~( /\ fsmState[c] = waiting_for_item_selection
                           /\ StartsWith(e.arg, CallbackPrefix) )

\* unhandled that starts address collection for a conversation without
\* state
unhandled_creating(c, t, e) ==
  /\ NoHandler(c, e)
  /\ Received(c, e)
  /\ Begin(t,
       NewTask(c, e.kind, e.arg, "-", "done", <<>>, 0))
  /\ fsmState' = [fsmState EXCEPT ![c] =
       IF @ = None THEN waiting_for_address ELSE @]
  /\ UNCHANGED <<fsmData, sink, hist>>

unhandled(c, t, e) ==
  /\ NoHandler(c, e)
  /\ Received(c, e)
  /\ Begin(t,
       NewTask(c, e.kind, e.arg, "-", "done", <<>>, 0))
  /\ UNCHANGED <<fsmState, fsmData, sink, hist>>

----------------------------------------------------------------------------
(* The dispatcher.  Dispatcher.start_polling handles every update in a     *)
(* task of its own (handle_as_tasks is left at its default) and the FSM    *)
(* storage is used without event isolation, so a handler of a conversation *)
(* can be dispatched while another handler of that conversation is         *)
(* suspended at an await: SpecTasks.  Under Spec the updates of a          *)
(* conversation are handled in order: an update is dispatched when no      *)
(* handler of its conversation is running.  Under SpecConvs two            *)
(* conversations send updates and their handlers interleave.               *)

StartCommand(c) == send_welcome(c, FreeSlot)

TextInput(c, text) ==
  \/ process_address(c, FreeSlot, text)
  \/ process_phone_number(c, FreeSlot, text)
  \/ unhandled(c, FreeSlot, Ev("text", text))

ItemSelected(c, item_id) ==
  \/ process_item_selection(c, FreeSlot, CallbackPrefix \o item_id)
  \/ unhandled(c, FreeSlot, Ev("item", CallbackPrefix \o item_id))

Resume(t) ==
  \/ send_welcome_set_state(t)
  \/ process_address_set_state(t)
  \/ process_item_selection_prompt(t)
  \/ process_item_selection_set_state(t)
  \/ \E ok \in BOOLEAN : process_phone_number_sent(t, ok)
  \/ process_phone_number_clear(t)
  \/ handler_return(t)

InOrder(c) == nEvents < MaxEvents /\ HasFreeSlot /\ Quiet(c)

AsTask(c) == nEvents < MaxTaskEvents /\ HasFreeSlot

HandleStart ==
  \E c \in ActiveConvs : InOrder(c) /\ StartCommand(c)
HandleText ==
  \E c \in ActiveConvs, text \in Texts : InOrder(c) /\ TextInput(c, text)
HandleItem ==
  \E c \in ActiveConvs, item_id \in ItemIds :
     InOrder(c) /\ ItemSelected(c, item_id)

Next ==
  \/ HandleStart
  \/ HandleText
  \/ HandleItem
  \/ \E t \in TaskIds : Resume(t)

Spec == Init /\ [][Next]_vars

TaskStart ==
  \E c \in ActiveConvs : AsTask(c) /\ StartCommand(c)
TaskText ==
  \E c \in ActiveConvs, text \in TaskTexts : AsTask(c) /\ TextInput(c, text)
TaskItem ==
  \E c \in ActiveConvs, item_id \in TaskItemIds :
     AsTask(c) /\ ItemSelected(c, item_id)

NextTasks ==
  \/ TaskStart
  \/ TaskText
  \/ TaskItem
  \/ \E t \in TaskIds : Resume(t)

SpecTasks == Init /\ [][NextTasks]_vars

\* both conversations send updates, each its own texts and items, and the
\* handlers of the two conversations interleave; the updates of one
\* conversation are handled in order
ByConv(c) == nEvents < MaxConvEvents /\ HasFreeSlot /\ Quiet(c)

ConvStart ==
  \E c \in Convs : ByConv(c) /\ StartCommand(c)
ConvText ==
  \E c \in Convs : \E text \in ConvTexts(c) : ByConv(c) /\ TextInput(c, text)
ConvItem ==
  \E c \in Convs : \E item_id \in ConvItemIds(c) :
     ByConv(c) /\ ItemSelected(c, item_id)

NextConvs ==
  \/ ConvStart
  \/ ConvText
  \/ ConvItem
  \/ \E t \in TaskIds : Resume(t)

SpecConvs == Init /\ [][NextConvs]_vars

----------------------------------------------------------------------------
(* Properties.                                                             *)

\* the index in sink of the last order of conversation c
LastSent(c) ==
  CHOOSE i \in 1..Len(sink) :
    /\ sink[i].order.user = c
    /\ \A j \in (i+1)..Len(sink) : sink[j].order.user # c

\* the handler in slot t takes a step: the coroutine as it was is gone
Acted(t) ==
  /\ task[t].pc # "idle"
  /\ \A u \in TaskIds : task'[u] # task[t]

Forward ==
  { <<waiting_for_address, waiting_for_item_selection>>,
    <<waiting_for_item_selection, waiting_for_phone_number>>,
    <<waiting_for_phone_number, None>> }

\* C1: every change of a conversation's FSM state is made by a handler of
\* that conversation and is either the reset to waiting_for_address by
\* send_welcome or, for a text or button update, one of address -> item,
\* item -> phone, phone -> no session.
C1_OnlyForwardTransitions ==
  [][ \A c \in Convs :
        fsmState'[c] # fsmState[c] =>
          \E t \in TaskIds :
            /\ task[t].conv = c
            /\ Acted(t)
            /\ IF task[t].kind = "start"
               THEN fsmState'[c] = waiting_for_address
               ELSE <<fsmState[c], fsmState'[c]>> \in Forward ]_vars

\* C2: once /start, an accepted address a, a catalog item i and an accepted
\* phone p have been handled one after the other, exactly one order has been
\* handed to the administrator since the /start, it carries a, the name and
\* the formatted price of MENU_ITEMS[i] and p, and the conversation has no
\* state and no data.
C2_EndToEnd ==
  \A c \in Convs :
    (Len(run[c].evs) = 4 /\ Quiet(c)) =>
      LET a == run[c].evs[2].arg
          i == SelectedId(run[c].evs[3].arg)
          p == run[c].evs[4].arg
      IN  /\ SentBy(c) = run[c].mark + 1
          /\ sink[LastSent(c)].order =
               [user |-> c, address |-> a,
                item_name |-> MENU_ITEMS[i].name,
                item_price |-> Format2f(MENU_ITEMS[i].price),
                phone |-> p]
          /\ fsmState[c] = None
          /\ fsmData[c] = EmptyDict

C2_Witness ==
  /\ run["c1"].evs = << Ev("start", <<>>), Ev("text", T_Evergreen),
                        Ev("item", CallbackPrefix \o K_soda),
                        Ev("text", P_scenario) >>
  /\ Quiet("c1")
  /\ Len(sink) = 1
  /\ sink[1].order.item_price = <<"3","0","0","0",".","0","0">>
  /\ fsmState["c1"] = None

\* C3: after /start has been handled the conversation is in
\* waiting_for_address and its data is empty.
C3_StartResets ==
  \A c \in Convs :
    (last[c].kind = "start" /\ Quiet(c)) =>
      /\ fsmState[c] = waiting_for_address
      /\ fsmData[c] = EmptyDict

\* str.strip(): the text without leading and trailing whitespace
Whitespace == {" ", "\n", "\t"}
RECURSIVE LStrip(_)
LStrip(s) ==
  IF s # <<>> /\ Head(s) \in Whitespace THEN LStrip(Tail(s)) ELSE s
RECURSIVE RStrip(_)
RStrip(s) ==
  IF s # <<>> /\ s[Len(s)] \in Whitespace
  THEN RStrip(SubSeq(s, 1, Len(s) - 1)) ELSE s
Strip(s) == RStrip(LStrip(s))

\* C4: a text whose stripped length is below 5, handled in
\* waiting_for_address, leaves the state and the data as they were and is
\* answered by the address re-prompt alone.
C4_ShortAddressRejected ==
  \A c \in Convs :
    ( /\ last[c].kind = "text"
      /\ last[c].state0 = waiting_for_address
      /\ Quiet(c)
      /\ Len(Strip(last[c].arg)) < 5 ) =>
      /\ fsmState[c] = waiting_for_address
      /\ fsmData[c] = last[c].data0
      /\ last[c].out = <<"address_reprompt">>

\* C5: a button update whose item identifier is no key of MENU_ITEMS,
\* handled in waiting_for_item_selection, leaves the state and the data as
\* they were and is answered by the "not available" message.
C5_UnknownItemRejected ==
  \A c \in Convs :
    ( /\ last[c].kind = "item"
      /\ last[c].state0 = waiting_for_item_selection
      /\ Quiet(c)
      /\ SelectedId(last[c].arg) \notin DOMAIN MENU_ITEMS ) =>
      /\ fsmState[c] = waiting_for_item_selection
      /\ fsmData[c] = last[c].data0
      /\ last[c].out = <<"unavailable">>

\* the canonical phone pattern: optional "+1" or "1", optional separator,
\* "(DDD)" or "DDD", optional separator, "DDD", optional separator, "DDDD"
CanonicalShapes ==
  LET D3 == <<Digits, Digits, Digits>>
      Opt(cls) == { <<>>, <<cls>> }
  IN  { cc \o s1 \o area \o s2 \o D3 \o s3 \o D3 \o <<Digits>> :
          cc \in { <<>>, <<{"1"}>>, <<{"+"}, {"1"}>> },
          s1 \in Opt(Separators),
          area \in { D3, <<{"("}>> \o D3 \o <<{")"}>> },
          s2 \in Opt(Separators),
          s3 \in Opt(Separators) }

CanonicalPhone(s) ==
  \E shape \in CanonicalShapes :
    /\ Len(s) = Len(shape)
    /\ \A i \in 1..Len(s) : s[i] \in shape[i]

\* C6: a text handled in waiting_for_phone_number finalizes the order
\* exactly when it has the canonical shape; otherwise the state stays
\* waiting_for_phone_number and no order is sent.
C6_PhoneIffCanonical ==
  \A c \in Convs :
    ( /\ last[c].kind = "text"
      /\ last[c].state0 = waiting_for_phone_number
      /\ Quiet(c) ) =>
      IF CanonicalPhone(last[c].arg)
      THEN last[c].msg > 0 /\ fsmState[c] = None
      ELSE last[c].msg = 0 /\ fsmState[c] = waiting_for_phone_number

\* C7: a session in waiting_for_phone_number holds non-empty address,
\* item_id, item_name and item_price; a session in
\* waiting_for_item_selection holds a non-empty address.
C7_FieldsPopulated ==
  \A c \in Convs :
    /\ fsmState[c] = waiting_for_phone_number =>
         /\ {"address", "item_id", "item_name", "item_price"}
               \subseteq DOMAIN fsmData[c]
         /\ fsmData[c]["address"] # <<>>
         /\ fsmData[c]["item_id"] # <<>>
         /\ fsmData[c]["item_name"] # ""
    /\ fsmState[c] = waiting_for_item_selection =>
         /\ "address" \in DOMAIN fsmData[c]
         /\ fsmData[c]["address"] # <<>>

C9_ClearedBeforeDelivery ==
  \A t \in TaskIds :
    ( /\ task[t].msg > 0
      /\ \/ task[t].pc = "send_message"
         \/ task[t].pc = "reply_final" /\ sink[task[t].msg].status = "failed" ) =>
      /\ fsmState[task[t].conv] = None
      /\ fsmData[task[t].conv] = EmptyDict

\* C9: the session is cleared after the delivery attempt, not before it:
\* the step that hands an order to the administrator leaves the session in
\* waiting_for_phone_number with all four fields stored, and a session is
\* removed only by a handler whose delivery attempt has ended (delivered or
\* failed) and whose final reply has been sent.
C9_ClearedAfterDelivery ==
  [][ /\ Len(sink') # Len(sink) =>
           \E t \in TaskIds :
             /\ task[t].pc = "idle"
             /\ task'[t].pc = "send_message"
             /\ sink' = Append(sink, sink'[task'[t].msg])
             /\ sink'[task'[t].msg].status = "sending"
             /\ fsmState'[task'[t].conv] = waiting_for_phone_number
             /\ SummaryKeys \subseteq DOMAIN fsmData'[task'[t].conv]
      /\ \A c \in Convs :
           (fsmState[c] # None /\ fsmState'[c] = None) =>
             \E t \in TaskIds :
               /\ task[t].conv = c
               /\ task[t].pc = "reply_final"
               /\ Acted(t)
               /\ last'[c] = [task[t] EXCEPT !.pc = "done"]
               /\ sink[task[t].msg].status \in {"delivered", "failed"} ]_vars

C9_Witness ==
  \E t \in TaskIds :
    /\ task[t].pc = "reply_final"
    /\ sink[task[t].msg].status = "failed"
    /\ fsmState[task[t].conv] = waiting_for_phone_number
    /\ SummaryKeys \subseteq DOMAIN fsmData[task[t].conv]

WritesPending(t) ==
  task[t].pc \in {"reply", "reply_menu", "edit_text", "answer_prompt",
                  "send_message", "reply_final"}

\* C11: the updates of a conversation are never handled concurrently: while
\* a handler of a conversation still has a write to the session ahead of
\* it, no handler of a later update of that conversation is running.
C11_OneHandlerPerConversation ==
  \A t, u \in TaskIds :
    ( /\ t < u
      /\ task[u].pc # "idle"
      /\ task[t].conv = task[u].conv ) => ~WritesPending(t)

\* an event of a kind the state does not expect
Mismatched(kind, st) ==
  \/ kind = "item" /\ st \in {waiting_for_address, waiting_for_phone_number}
  \/ kind = "text" /\ st = waiting_for_item_selection

\* C12: a button update handled in waiting_for_address or
\* waiting_for_phone_number, and a text handled in
\* waiting_for_item_selection, leave the state and the data as they were and
\* hand no order to the administrator.
C12_MismatchedEventIgnored ==
  \A c \in Convs :
    (Quiet(c) /\ Mismatched(last[c].kind, last[c].state0)) =>
      /\ fsmState[c] = last[c].state0
      /\ fsmData[c] = last[c].data0
      /\ last[c].msg = 0

C12_Witness ==
  /\ Quiet("c1")
  /\ last["c1"].kind = "item"
  /\ last["c1"].state0 = waiting_for_phone_number
  /\ SelectedId(last["c1"].arg) = K_soda
  /\ fsmState["c1"] = waiting_for_phone_number
  /\ "item_name" \in DOMAIN fsmData["c1"]
  /\ sink = <<>>

\* C13 as stated: the text "Main St", handled in waiting_for_address, is
\* answered by the address re-prompt, is not stored and leaves the state
\* waiting_for_address.
C13_MainStRejected ==
  \A c \in Convs :
    ( /\ last[c].kind = "text"
      /\ last[c].arg = T_MainSt
      /\ last[c].state0 = waiting_for_address
      /\ Quiet(c) ) =>
      /\ fsmState[c] = waiting_for_address
      /\ fsmData[c] = last[c].data0
      /\ last[c].out = <<"address_reprompt">>

\* C13: the text "Main St" has 7 characters: handled in
\* waiting_for_address it is stored as the address, answered by the menu,
\* and the state becomes waiting_for_item_selection.
C13_MainStAccepted ==
  \A c \in Convs :
    ( /\ last[c].kind = "text"
      /\ last[c].arg = T_MainSt
      /\ last[c].state0 = waiting_for_address
      /\ Quiet(c) ) =>
      /\ fsmState[c] = waiting_for_item_selection
      /\ fsmData[c] = UpdateData(last[c].data0, [address |-> T_MainSt])
      /\ last[c].out = <<"menu">>

C13_Witness ==
  /\ run["c1"].evs = << Ev("start", <<>>), Ev("text", T_MainSt) >>
  /\ Quiet("c1")
  /\ nEvents = 2
  /\ fsmState["c1"] = waiting_for_item_selection
  /\ fsmData["c1"] = [address |-> T_MainSt]

\* C14: a button update whose item identifier i is a key of MENU_ITEMS,
\* handled in waiting_for_item_selection, stores i, the name and the price
\* of MENU_ITEMS[i], leaves the stored address as it was and moves the
\* state to waiting_for_phone_number.
C14_ItemSnapshotStored ==
  \A c \in Convs :
    ( /\ last[c].kind = "item"
      /\ last[c].state0 = waiting_for_item_selection
      /\ Quiet(c)
      /\ SelectedId(last[c].arg) \in DOMAIN MENU_ITEMS ) =>
      LET i == SelectedId(last[c].arg) IN
      /\ fsmState[c] = waiting_for_phone_number
      /\ {"address", "item_id", "item_name", "item_price"}
            \subseteq DOMAIN fsmData[c]
      /\ fsmData[c]["item_id"] = i
      /\ fsmData[c]["item_name"] = MENU_ITEMS[i].name
      /\ fsmData[c]["item_price"] = MENU_ITEMS[i].price
      /\ fsmData[c]["address"] = last[c].data0["address"]

\* C15: each time the state of a conversation becomes
\* waiting_for_phone_number at most one order is handed to the
\* administrator: the orders of a conversation never outnumber its entries
\* into waiting_for_phone_number.
C15_OneOrderPerEntry ==
  \A c \in Convs : SentBy(c) <= hist[c].entries

\* C16: no handler ends with a fault: process_phone_number never finds
\* address, item_name, item_price or phone_number missing from the data it
\* builds the order summary from.
C16_NoFault ==
  /\ \A c \in Convs : last[c].pc # "fault"
  /\ \A t \in TaskIds : task[t].pc # "fault"

\* C17: an order handed to the administrator carries the address accepted
\* last, and the name and price of the item accepted last, since the last
\* /start and the last finalization of its conversation.
C17_NoStaleValues ==
  [][ Len(sink') > Len(sink) =>
        LET o == sink'[Len(sink')].order
            h == hist[o.user]
        IN  /\ h.address = {o.address}
            /\ h.item # {}
            /\ \A i \in h.item :
                 /\ o.item_name = MENU_ITEMS[i].name
                 /\ o.item_price = Format2f(MENU_ITEMS[i].price) ]_vars

\* C18: once a conversation has no state (its order is finalized and its
\* session cleared), a text or button update it sends is ignored (no state,
\* no data, no order), and it gets a state again only by a /start being
\* handled.
C18_IgnoredUntilStart ==
  [][ \A c \in Convs :
        /\ ( /\ last'[c] # last[c]
             /\ last'[c].state0 = None
             /\ last'[c].kind # "start" ) =>
             /\ fsmState'[c] = None
             /\ fsmData'[c] = EmptyDict
             /\ last'[c].msg = 0
             /\ sink' = sink
        /\ (fsmState[c] = None /\ fsmState'[c] # None) =>
             /\ last'[c] # last[c]
             /\ last'[c].kind = "start" ]_vars

\* a handler of conversation a takes a step: an update of a is dispatched,
\* or a suspended handler of a resumes
StepOf(a) ==
  \/ \E t \in TaskIds : task[t].conv = a /\ Acted(t)
  \/ /\ nEvents' = nEvents + 1
     /\ \/ last'[a].seq = nEvents'
        \/ \E t \in TaskIds : task'[t].conv = a /\ task'[t].seq = nEvents'

\* C19: a step of a handler of one conversation leaves the state and the
\* data of every other conversation as they were, and an order carries only
\* texts and an item its own conversation has sent.
C19_ConversationsIsolated ==
  [][ /\ \E a \in Convs : StepOf(a)
      /\ \A a \in Convs :
           StepOf(a) =>
             \A b \in Convs \ {a} :
               /\ fsmState'[b] = fsmState[b]
               /\ fsmData'[b] = fsmData[b]
      /\ \A i \in 1..Len(sink') :
           LET o == sink'[i].order IN
           /\ o.address \in ConvTexts(o.user)
           /\ o.phone \in ConvTexts(o.user)
           /\ \E k \in ConvItemIds(o.user) :
                /\ o.item_name = MENU_ITEMS[k].name
                /\ o.item_price = Format2f(MENU_ITEMS[k].price) ]_vars

C19_Witness ==
  /\ Len(sink) = 1
  /\ sink[1].order.user = "c2"
  /\ sink[1].order.address = T_MainSt
  /\ sink[1].order.item_name = "Vodka"
  /\ fsmState["c1"] = waiting_for_item_selection
  /\ fsmData["c1"] = [address |-> T_Evergreen]
  /\ \E t \in TaskIds : task[t].conv = "c2" /\ task[t].pc = "send_message"

\* C20: once /start, a valid address, a catalog item and a valid phone have
\* arrived in this order and every handler has run to its end, an order has
\* been handed to the administrator since the /start and the conversation
\* has no state and no data.
C20_OrderEventuallyPlaced ==
  \A c \in Convs :
    (Len(run[c].evs) = 4 /\ Quiet(c)) =>
      /\ SentBy(c) > run[c].mark
      /\ fsmState[c] = None
      /\ fsmData[c] = EmptyDict

====
